---- MODULE Spec2Model ----
(***************************************************************************)
(* The attendance server (supabase/functions/server/index.tsx): a Hono app *)
(* whose handlers read and write Student and AttendanceRecord documents in *)
(* a key-value table under the keys student:<id> and attendance:<id>.      *)
(*                                                                         *)
(* Strings are modelled as tuples: <<>> is the empty string, <<tag, n>> is *)
(* the text tag followed by the decimal rendering of n ("STU" 46 is        *)
(* STU46, "STU00" 1 is STU001).  The clock counts half hours, so that the  *)
(* offsets of the sample data (2 h, 1 h, 30 min) and the calendar day are  *)
(* whole numbers; two reads of the clock that return the same value stand  *)
(* for two reads in the same millisecond.                                  *)
(***************************************************************************)
EXTENDS Integers, Sequences, FiniteSets, TLC

\* ------------------------------------------------------------------ bounds

\* The clock runs to this many half hours past the first midnight.
PastMidnight == 1
\* The most the clock advances while one handler runs.
MaxElapse == 1
\* Handler calls in one behaviour.
MaxSteps == 3
\* Handler calls in one behaviour of the longer run over fewer inputs.
MaxDeepSteps == 5
\* Requests in flight at once.
NumRequests == 2
\* Handler calls of the app in one behaviour.
MaxAppSteps == 2
\* Presses of the scanner's toggle button in one behaviour.
MaxToggles == 7
\* Handlers of the app in flight at once.
NumCalls == 2

\* --------------------------------------------------------------- constants

\* A calendar day, in half hours (Date.prototype.toDateString).
DayLen == 48
\* 2 * 60 * 60 * 1000 ms, 1 * 60 * 60 * 1000 ms and 30 * 60 * 1000 ms, in half hours.
TwoHours == 4
OneHour == 2
HalfHour == 1

\* The clock starts half an hour before the first midnight.
StartTime == DayLen - HalfHour
MaxTime == DayLen + PastMidnight

\* ------------------------------------------------------------ JS values

Empty == <<>>
Undefined == <<"undefined", 0>>
Txt(n) == <<"txt", n>>
Present == <<"present", 0>>

\* JavaScript truthiness of a string-or-undefined value.
Truthy(v) == v # Empty /\ v # Undefined

\* `STU${Date.now()}` and `ATT${Date.now()}`.
StuId(t) == <<"STU", t>>
AttId(t) == <<"ATT", t>>
\* The literals 'STU001'..'STU005' and 'ATT001'..'ATT003'.
SampleStu(i) == <<"STU00", i>>
SampleAtt(i) == <<"ATT00", i>>

\* new Date(t).toISOString(), new Date(iso).getTime() and
\* new Date(t).toDateString().
ToISOString(t) == <<"iso", t>>
GetTime(iso) == iso[2]
ToDateString(t) == <<"day", t \div DayLen>>
DateStringOf(iso) == ToDateString(GetTime(iso))

Min(a, b) == IF a < b THEN a ELSE b

\* The values k successive reads of the clock can return from time n on.
ClockReads(n, k) ==
  { r \in [1..k -> n..Min(n + MaxElapse, MaxTime)] :
      \A i \in 1..(k - 1) : r[i] <= r[i + 1] }

\* ------------------------------------------------------- key-value store

\* The table, split by key prefix: a function from the id after the prefix
\* to the stored document.
KvGet(store, k) == IF k \in DOMAIN store THEN {store[k]} ELSE {}
KvSet(store, k, v) == (k :> v) @@ store
KvDel(store, k) == [x \in DOMAIN store \ {k} |-> store[x]]
\* The entries under a prefix, each with its key and its value; their order
\* is not fixed, so they are a set.
KvGetByPrefix(store) == { [key |-> k, value |-> store[k]] : k \in DOMAIN store }

\* ------------------------------------------------------------------ state

VARIABLES
  students,    \* the documents under student:
  attendance,  \* the documents under attendance:
  now,         \* the clock
  last,        \* the request handled last and its response
  steps,       \* handler calls so far
  req,         \* the requests in flight (interleaved handlers)
  ui,          \* the state of the App component in the browser
  del,         \* the delete request in flight (interleaved handlers)
  scanner,     \* the state of the QRScanner component and of the camera
  calls        \* the handlers of the app in flight (interleaved handlers)

vars ==
  <<students, attendance, now, last, steps, req, ui, del, scanner, calls>>
\* What the handlers that run to completion leave alone.
flight == <<req, ui, del, scanner, calls>>

StudentFields == {"id", "name", "email", "studentNumber", "country", "qrCode", "createdAt"}

\* What a handler answered: the route, the HTTP status, the request's
\* parameter and body, and the response body's error, message (a text and
\* the name it is built around), student and record (each a set of at most
\* one element).
Response(op, status, arg, body, error, message, student, record) ==
  [op |-> op, status |-> status, arg |-> arg, body |-> body,
   error |-> error, message |-> message, student |-> student, record |-> record]

NoMessage == <<"", Empty>>

\* Requests whose handlers run interleaved: each gives way at its awaits, so
\* its storage calls take effect one at a time between those of the others.
Requests == 1..NumRequests

\* A check-in request: where its handler stands ("new": not sent yet;
\* "attendance": awaiting kv.getByPrefix('attendance:'); "set": awaiting
\* kv.set; "done"), the code it carries, the student it resolved, the day it
\* read as today, the clock value it read for the record id, the record it
\* built and the status it answered.
NewRequest ==
  [pc |-> "new", qrCode |-> Empty, student |-> {}, today |-> ToDateString(0),
   idTime |-> 0, record |-> {}, status |-> 0]

\* The App component as it mounts: useState([]) twice, no notification, no
\* error screen; no handler has run and no request has failed.
NewApp ==
  [students |-> <<>>, attendanceRecords |-> <<>>, toast |-> <<"none", NoMessage>>,
   error |-> "", handler |-> "none", failed |-> FALSE]

\* A delete request: where its handler stands ("new": not sent yet; "del":
\* awaiting kv.del of the student; "attendance": awaiting
\* kv.getByPrefix('attendance:'); "cascade": awaiting the kv.del of its loop;
\* "done"), the id in its path, the entries its loop has yet to delete and
\* the status it answered.
NewDelete == [pc |-> "new", id |-> Empty, records |-> {}, status |-> 0]

\* The QRScanner component as it mounts (lines 13-17 of the component, line
\* 18 of App.tsx): the isActive prop, hasPermission ("null" until a camera
\* request was answered), the two refs (each a set of at most one element),
\* the startScanning calls awaiting getUserMedia, the streams the camera has
\* handed out, those whose tracks still run, the intervals that still fire
\* and the presses of the toggle button so far.
NewScanner ==
  [isActive |-> FALSE, hasPermission |-> "null", streamRef |-> {},
   scanIntervalRef |-> {}, pending |-> 0, opened |-> 0, live |-> {},
   timers |-> {}, toggles |-> 0]

\* The handlers of the app that run interleaved: each gives way at its
\* await, so its request is served at one moment and its state update
\* happens at a later one.
Calls == 1..NumCalls

\* A handler of the app in flight: where it stands ("new": not started;
\* "sent": awaiting its responses; "done"), which handler it is, the id it
\* is about, what GET /students and GET /attendance answered (each a set of
\* at most one element), the student a POST or PUT answered, and whether a
\* request of it failed.
NewCall ==
  [pc |-> "new", handler |-> "none", id |-> Empty, studentsData |-> {},
   attendanceData |-> {}, student |-> {}, failed |-> FALSE]

Init ==
  /\ students = [k \in {} |-> 0]
  /\ attendance = [k \in {} |-> 0]
  /\ now = StartTime
  /\ last = Response("none", 0, Empty, {}, "", NoMessage, {}, {})
  /\ steps = 0
  /\ req = [r \in Requests |-> NewRequest]
  /\ ui = NewApp
  /\ del = NewDelete
  /\ scanner = NewScanner
  /\ calls = [c \in Calls |-> NewCall]

\* One more handler call, of at most n in a behaviour.
Call(n) == steps < n /\ steps' = steps + 1 /\ UNCHANGED flight

\* Time passes between two handler calls.
TimePasses ==
  /\ now < MaxTime
  /\ now' = now + 1
  /\ UNCHANGED <<students, attendance, steps, last>>

Tick == TimePasses /\ UNCHANGED flight

\* ------------------------------------------------------- POST /students

CreateBodies ==
  { b \in [{"name", "email", "studentNumber", "country"} -> {Undefined, Empty, Txt(1)}] :
      /\ b.name # Undefined /\ b.email # Empty /\ b.studentNumber # Undefined
      /\ b.country # Empty
      /\ Cardinality({f \in {"name", "email", "studentNumber"} : ~Truthy(b[f])}) <= 1 }

MissingName(body) == ~Truthy(body.name)

\* if (!name || !email || !studentNumber)
MissingRequired(body) ==
  ~Truthy(body.name) \/ ~Truthy(body.email) \/ ~Truthy(body.studentNumber)

NewStudentWithoutCode(body, idTime, stampTime) ==
  [id |-> StuId(idTime),
   name |-> body.name,
   email |-> body.email,
   studentNumber |-> body.studentNumber,
   country |-> IF Truthy(body.country) THEN body.country ELSE Empty,
   qrCode |-> Empty,
   createdAt |-> ToISOString(stampTime)]

\* The student lines 46-55 build.
NewStudent(body, idTime, stampTime) ==
  [id |-> StuId(idTime),
   name |-> body.name,
   email |-> body.email,
   studentNumber |-> body.studentNumber,
   country |-> IF Truthy(body.country) THEN body.country ELSE Empty,
   qrCode |-> StuId(idTime),
   createdAt |-> ToISOString(stampTime)]

CreateStudentReq(body) ==
  IF MissingRequired(body)
  THEN /\ last' = Response("create", 400, Empty, {body}, "Missing required fields",
                           NoMessage, {}, {})
       /\ UNCHANGED <<students, attendance, now>>
  ELSE \E r \in ClockReads(now, 2) :
         LET student == NewStudent(body, r[1], r[2])
         IN /\ students' = KvSet(students, student.id, student)
            /\ now' = r[2]
            /\ last' = Response("create", 200, Empty, {body}, "", NoMessage, {student}, {})
            /\ UNCHANGED attendance

CreateStudent ==
  /\ Call(MaxSteps)
  /\ \E body \in CreateBodies : CreateStudentReq(body)

\* ---------------------------------------------------- PUT /students/:id

\* { ...body, ...existingStudent }
MergeKeepingExisting(existing, body) ==
  [f \in DOMAIN existing \cup DOMAIN body |->
     IF f \in DOMAIN existing THEN existing[f] ELSE body[f]]

\* { ...existingStudent, ...body }
Merge(existing, body) ==
  [f \in DOMAIN existing \cup DOMAIN body |->
     IF f \in DOMAIN body THEN body[f] ELSE existing[f]]

\* The bodies a client sends: one that rewrites the id, one that takes the
\* qrCode of another student, two that blank a field, and one that edits two
\* fields as the edit form does.
UpdateBodies ==
  { [id |-> SampleStu(1)],
    [qrCode |-> SampleStu(4)],
    [name |-> Empty],
    [email |-> Empty],
    [name |-> Txt(2), country |-> Txt(2)] }

\* The ids a client names in the path: those of the students created, of
\* the sample students 1 (who has a sample record), 4 and 5 (who have none),
\* and one that is not stored.
UnknownId == StuId(999)
ClientIds == {StuId(t) : t \in StartTime..MaxTime} \cup {SampleStu(1), SampleStu(4), SampleStu(5)}
PathIds == (DOMAIN students \cap ClientIds) \cup {UnknownId}

UpdateStudentReq(studentId, body) ==
  LET existingStudent == KvGet(students, studentId) IN
  IF existingStudent = {}
  THEN /\ last' = Response("update", 404, studentId, {body}, "Student not found",
                           NoMessage, {}, {})
       /\ UNCHANGED <<students, attendance, now>>
  ELSE \E e \in existingStudent :
         LET updatedStudent == Merge(e, body) IN
         /\ students' = KvSet(students, studentId, updatedStudent)
         /\ last' = Response("update", 200, studentId, {body}, "", NoMessage,
                             {updatedStudent}, {})
         /\ UNCHANGED <<attendance, now>>

UpdateStudent ==
  /\ Call(MaxSteps)
  /\ \E studentId \in PathIds, body \in UpdateBodies : UpdateStudentReq(studentId, body)

\* ------------------------------------------------- DELETE /students/:id

\* for (const record of records) await kv.del(`attendance:${record.value.id}`)
RECURSIVE DelEach(_, _)
DelEach(store, records) ==
  IF records = {} THEN store
  ELSE LET record == CHOOSE r \in records : TRUE
       IN DelEach(KvDel(store, record.value.id), records \ {record})

StudentAttendanceRecordsById(studentId) ==
  { record \in KvGetByPrefix(attendance) : record.value.id = studentId }

\* attendanceRecords.filter(record => ... record.value.studentId === studentId)
StudentAttendanceRecords(studentId) ==
  { record \in KvGetByPrefix(attendance) : record.value.studentId = studentId }

DeleteStudentUnchecked(studentId) ==
  /\ students' = KvDel(students, studentId)
  /\ attendance' = DelEach(attendance, StudentAttendanceRecords(studentId))
  /\ last' = Response("delete", 200, studentId, {}, "",
                      <<"Student deleted successfully", Empty>>, {}, {})
  /\ UNCHANGED now

DeleteStudentReq(studentId) ==
  IF KvGet(students, studentId) = {}
  THEN /\ last' = Response("delete", 404, studentId, {}, "Student not found",
                           NoMessage, {}, {})
       /\ UNCHANGED <<students, attendance, now>>
  ELSE /\ students' = KvDel(students, studentId)
       /\ attendance' = DelEach(attendance, StudentAttendanceRecords(studentId))
       /\ last' = Response("delete", 200, studentId, {}, "",
                           <<"Student deleted successfully", Empty>>, {}, {})
       /\ UNCHANGED now

DeleteStudent ==
  /\ Call(MaxSteps)
  /\ \E studentId \in PathIds : DeleteStudentReq(studentId)

\* ------------------------------------------------------ GET /students

\* students.map(item => item?.value).filter(student => student && student.id && student.name)
ValidStudent(student) == Truthy(student.id) /\ Truthy(student.name)

ListStudents ==
  { student \in { item.value : item \in KvGetByPrefix(students) } : ValidStudent(student) }

\* ---------------------------------------------------- GET /attendance

ValidRecord(record) ==
  Truthy(record.id) /\ Truthy(record.studentId) /\ Truthy(record.timestamp)

\* validRecords.sort((a, b) => new Date(b.timestamp).getTime() -
\* new Date(a.timestamp).getTime()): the orders with no record before one of
\* a later timestamp; records of one timestamp keep the order the table
\* returned them in, which is any order.
RECURSIVE SortDescending(_)
SortDescending(records) ==
  IF records = {} THEN {<<>>}
  ELSE UNION { { <<first>> \o rest : rest \in SortDescending(records \ {first}) } :
               first \in { r \in records :
                             \A other \in records :
                               GetTime(other.timestamp) <= GetTime(r.timestamp) } }

\* The lists the response can carry.
ListAttendance ==
  SortDescending({ record \in { item.value : item \in KvGetByPrefix(attendance) } :
                     ValidRecord(record) })

\* The entries of a prefix in one order.
RECURSIVE InSomeOrder(_)
InSomeOrder(entries) ==
  IF entries = {} THEN <<>>
  ELSE LET first == CHOOSE entry \in entries : TRUE
       IN <<first>> \o InSomeOrder(entries \ {first})

\* The orders in which the table can return the entries of a prefix: all of
\* them.
Orderings(entries) ==
  LET one == InSomeOrder(entries) IN
  { [i \in 1..Len(one) |-> one[order[i]]] : order \in Permutations(1..Len(one)) }

\* records.map(item => item?.value)
Values(entries) == [i \in 1..Len(entries) |-> entries[i].value]

InsertAscending(sorted, record) ==
  LET k == Cardinality({ i \in 1..Len(sorted) :
                           GetTime(sorted[i].timestamp) < GetTime(record.timestamp) })
  IN SubSeq(sorted, 1, k) \o <<record>> \o SubSeq(sorted, k + 1, Len(sorted))

\* One step of the sort: the record goes behind the records that the
\* comparator (a, b) => getTime(b) - getTime(a) does not put after it.
InsertDescending(sorted, record) ==
  LET k == Cardinality({ i \in 1..Len(sorted) :
                           GetTime(sorted[i].timestamp) >= GetTime(record.timestamp) })
  IN SubSeq(sorted, 1, k) \o <<record>> \o SubSeq(sorted, k + 1, Len(sorted))

\* Array.prototype.sort with that comparator: a stable sort, records of one
\* timestamp stay in the order they came in.
RECURSIVE SortByTimestamp(_)
SortByTimestamp(records) ==
  IF records = <<>> THEN <<>>
  ELSE InsertDescending(SortByTimestamp(SubSeq(records, 1, Len(records) - 1)),
                        records[Len(records)])

\* The list GET /attendance answers when the table returns `entries`.
GetAttendance(entries) ==
  SortByTimestamp(SelectSeq(Values(entries), ValidRecord))

\* ------------------------------------------------ GET /attendance/today

TodayFilterAnyDay(record, today) == ValidRecord(record)

\* record && record.id && record.studentId && record.timestamp &&
\* new Date(record.timestamp).toDateString() === today
TodayFilter(record, today) ==
  ValidRecord(record) /\ DateStringOf(record.timestamp) = today

\* The list GET /attendance/today answers when the clock reads `time` and the
\* table returns `entries`.
GetAttendanceToday(entries, time) ==
  LET today == ToDateString(time) IN
  SortByTimestamp(SelectSeq(Values(entries), LAMBDA record : TodayFilter(record, today)))

\* ------------------------------------------- POST /attendance/checkin

ValidStudentsAnyName(entries) ==
  { item \in entries : Truthy(item.value.qrCode) /\ Truthy(item.value.id) }

\* The entries the handler searches for the scanned code.
ValidStudents(entries) ==
  { item \in entries :
      Truthy(item.value.qrCode) /\ Truthy(item.value.id) /\ Truthy(item.value.name) }

\* validStudents.find(item => item.value.qrCode === qrCode): the first match
\* in the order the table returned, which is any of the matches.
FindStudent(entries, qrCode) ==
  { item \in ValidStudents(entries) : item.value.qrCode = qrCode }

ValidAttendanceRecords(entries) ==
  { record \in entries : Truthy(record.value.studentId) /\ Truthy(record.value.timestamp) }

\* The student's records of the day `today`.
TodayRecord(entries, studentId, today) ==
  { record \in ValidAttendanceRecords(entries) :
      /\ record.value.studentId = studentId
      /\ DateStringOf(record.value.timestamp) = today }

NewAttendanceRecordByCode(student, idTime, stampTime) ==
  [id |-> AttId(idTime),
   studentId |-> student.qrCode,
   timestamp |-> ToISOString(stampTime),
   status |-> Present]

\* The record lines 172-178 build.
NewAttendanceRecord(student, idTime, stampTime) ==
  [id |-> AttId(idTime),
   studentId |-> student.id,
   timestamp |-> ToISOString(stampTime),
   status |-> Present]

\* await kv.set(`attendance:${attendanceId}`, attendanceRecord)
StoreRecordByStudent(store, record) == KvSet(store, record.studentId, record)
StoreRecord(store, record) == KvSet(store, record.id, record)

AlreadyCheckedIn(name) == <<" has already checked in today", name>>
CheckedIn(name) == <<" checked in successfully!", name>>

\* The codes a scanner sends: the qrCode of a stored student, one that no
\* student has, and none.
UnknownCode == StuId(999)
ScanCodes == ClientIds \cup {UnknownCode, Empty}

CheckInReq(qrCode) ==
  IF ~Truthy(qrCode)
  THEN /\ last' = Response("checkin", 400, qrCode, {}, "QR code is required", NoMessage, {}, {})
       /\ UNCHANGED <<students, attendance, now>>
  ELSE
  LET found == FindStudent(KvGetByPrefix(students), qrCode) IN
  IF found = {}
  THEN /\ last' = Response("checkin", 404, qrCode, {}, "Student not found", NoMessage, {}, {})
       /\ UNCHANGED <<students, attendance, now>>
  ELSE
  \E student \in found, r \in ClockReads(now, 3) :
    LET today == ToDateString(r[1])
        todayRecord == TodayRecord(KvGetByPrefix(attendance), student.value.id, today)
        attendanceRecord == NewAttendanceRecord(student.value, r[2], r[3])
    IN IF todayRecord # {}
       THEN /\ last' = Response("checkin", 409, qrCode, {}, "Already checked in",
                                AlreadyCheckedIn(student.value.name), {student.value}, {})
            /\ now' = r[1]
            /\ UNCHANGED <<students, attendance>>
       ELSE /\ attendance' = StoreRecord(attendance, attendanceRecord)
            /\ last' = Response("checkin", 200, qrCode, {}, "",
                                CheckedIn(student.value.name), {student.value},
                                {attendanceRecord})
            /\ now' = r[3]
            /\ UNCHANGED students

CheckIn ==
  /\ Call(MaxSteps)
  /\ \E qrCode \in ScanCodes : CheckInReq(qrCode)

\* ------------------------------------------------ POST /init-sample-data

SampleName(i) == <<"sample name ", i>>
SampleEmail(i) == <<"sample email ", i>>
SampleNumber(i) == <<"202100", i>>
SampleCountry(i) == <<"sample country ", i>>

SampleStudent(i, t) ==
  [id |-> SampleStu(i), name |-> SampleName(i), email |-> SampleEmail(i),
   studentNumber |-> SampleNumber(i), country |-> SampleCountry(i),
   qrCode |-> SampleStu(i), createdAt |-> ToISOString(t)]

SampleOffset(i) == CASE i = 1 -> TwoHours [] i = 2 -> OneHour [] i = 3 -> HalfHour

SampleRecord(i, t) ==
  [id |-> SampleAtt(i), studentId |-> SampleStu(i),
   timestamp |-> ToISOString(t - SampleOffset(i)), status |-> Present]

\* for (const x of xs) await kv.set(prefix + x.id, x)
RECURSIVE SetEach(_, _)
SetEach(store, docs) ==
  IF docs = <<>> THEN store
  ELSE SetEach(KvSet(store, Head(docs).id, Head(docs)), Tail(docs))

InitSampleDataUnchecked ==
  \E r \in ClockReads(now, 8) :
    /\ students' = SetEach(students, [i \in 1..5 |-> SampleStudent(i, r[i])])
    /\ attendance' = SetEach(attendance, [i \in 1..3 |-> SampleRecord(i, r[5 + i])])
    /\ now' = r[8]
    /\ last' = Response("init", 200, Empty, {}, "",
                        <<"Sample data initialized successfully", Empty>>, {}, {})

InitSampleDataReq ==
  IF KvGetByPrefix(students) # {}
  THEN /\ last' = Response("init", 200, Empty, {}, "",
                           <<"Sample data already exists", Empty>>, {}, {})
       /\ UNCHANGED <<students, attendance, now>>
  ELSE \E r \in ClockReads(now, 8) :
         /\ students' = SetEach(students, [i \in 1..5 |-> SampleStudent(i, r[i])])
         /\ attendance' = SetEach(attendance, [i \in 1..3 |-> SampleRecord(i, r[5 + i])])
         /\ now' = r[8]
         /\ last' = Response("init", 200, Empty, {}, "",
                             <<"Sample data initialized successfully", Empty>>, {}, {})

InitSampleData ==
  /\ Call(MaxSteps)
  /\ InitSampleDataReq

\* ------------------------------------------------ sequential handlers

\* The handlers, each run to completion before the next one starts.
Next ==
  \/ Tick
  \/ CreateStudent
  \/ UpdateStudent
  \/ DeleteStudent
  \/ CheckIn
  \/ InitSampleData

Spec == Init /\ [][Next]_vars

\* The same handlers in a longer run over fewer inputs: one create body, the
\* update that rewrites the id, and the ids and codes of the students created.
CreatedIds == DOMAIN students \cap {StuId(t) : t \in StartTime..MaxTime}

DeepCreate ==
  /\ Call(MaxDeepSteps)
  /\ CreateStudentReq([name |-> Txt(1), email |-> Txt(1), studentNumber |-> Txt(1),
                       country |-> Undefined])

DeepUpdate ==
  /\ Call(MaxDeepSteps)
  /\ \E studentId \in CreatedIds : UpdateStudentReq(studentId, [id |-> SampleStu(1)])

DeepDelete ==
  /\ Call(MaxDeepSteps)
  /\ \E studentId \in CreatedIds : DeleteStudentReq(studentId)

DeepCheckIn ==
  /\ Call(MaxDeepSteps)
  /\ \E qrCode \in CreatedIds : CheckInReq(qrCode)

DeepInitSampleData ==
  /\ Call(MaxDeepSteps)
  /\ InitSampleDataReq

DeepNext ==
  \/ DeepCreate
  \/ DeepUpdate
  \/ DeepDelete
  \/ DeepCheckIn
  \/ DeepInitSampleData

SpecDeep == Init /\ [][DeepNext]_vars

\* ------------------------------------------------ interleaved handlers

\* The store is filled before the requests arrive.
RaceSetup ==
  /\ steps = 0
  /\ steps' = 1
  /\ InitSampleDataReq
  /\ UNCHANGED <<req, ui, del, scanner, calls>>

RaceCodes == {SampleStu(1), SampleStu(4), UnknownCode}

\* Lines 134-153: the students are read, the code is resolved and today is
\* read from the clock.
CheckInReadStudents(r) ==
  /\ steps = 1
  /\ req[r].pc = "new"
  /\ \E qrCode \in RaceCodes :
       LET found == FindStudent(KvGetByPrefix(students), qrCode) IN
       IF found = {}
       THEN req' = [req EXCEPT ![r] = [@ EXCEPT !.pc = "done", !.qrCode = qrCode,
                                                !.status = 404]]
       ELSE \E student \in found :
              req' = [req EXCEPT ![r] = [@ EXCEPT !.pc = "attendance", !.qrCode = qrCode,
                                                  !.student = {student.value},
                                                  !.today = ToDateString(now)]]
  /\ UNCHANGED <<students, attendance, now, last, steps, ui, del, scanner, calls>>

\* Lines 154-180: the attendance records are read, the test is made, and the
\* record is built and handed to kv.set.
CheckInReadAttendance(r) ==
  /\ req[r].pc = "attendance"
  /\ \E student \in req[r].student :
       LET todayRecord == TodayRecord(KvGetByPrefix(attendance), student.id, req[r].today)
       IN IF todayRecord # {}
          THEN /\ req' = [req EXCEPT ![r] = [@ EXCEPT !.pc = "done", !.status = 409]]
               /\ UNCHANGED now
          ELSE \E c \in ClockReads(now, 2) :
                 /\ req' = [req EXCEPT ![r] =
                              [@ EXCEPT !.pc = "set", !.idTime = c[1],
                                        !.record = {NewAttendanceRecord(student, c[1], c[2])}]]
                 /\ now' = c[2]
  /\ UNCHANGED <<students, attendance, last, steps, ui, del, scanner, calls>>

\* Line 180: the write lands; lines 182-187: the handler answers.
CheckInWrite(r) ==
  /\ req[r].pc = "set"
  /\ \E record \in req[r].record : attendance' = StoreRecord(attendance, record)
  /\ req' = [req EXCEPT ![r] = [@ EXCEPT !.pc = "done", !.status = 200]]
  /\ UNCHANGED <<students, now, last, steps, ui, del, scanner, calls>>

RaceTick == steps = 1 /\ TimePasses /\ UNCHANGED <<req, ui, del, scanner, calls>>

RaceNext ==
  \/ RaceSetup
  \/ RaceTick
  \/ \E r \in Requests : CheckInReadStudents(r)
  \/ \E r \in Requests : CheckInReadAttendance(r)
  \/ \E r \in Requests : CheckInWrite(r)

SpecRace == Init /\ [][RaceNext]_vars

\* ------------------------------------- a delete among the check-ins

\* Lines 87-92: the student is looked up.
DeleteGet ==
  /\ steps = 1
  /\ del.pc = "new"
  /\ \E studentId \in RaceCodes :
       IF KvGet(students, studentId) = {}
       THEN del' = [del EXCEPT !.pc = "done", !.id = studentId, !.status = 404]
       ELSE del' = [del EXCEPT !.pc = "del", !.id = studentId]
  /\ UNCHANGED <<students, attendance, now, last, steps, req, ui, scanner, calls>>

\* Line 94: the student is deleted.
DeleteDel ==
  /\ del.pc = "del"
  /\ students' = KvDel(students, del.id)
  /\ del' = [del EXCEPT !.pc = "attendance"]
  /\ UNCHANGED <<attendance, now, last, steps, req, ui, scanner, calls>>

\* Lines 97-100: the attendance records are read and those of the student
\* are kept for the loop.
DeleteReadAttendance ==
  /\ del.pc = "attendance"
  /\ del' = [del EXCEPT !.pc = "cascade", !.records = StudentAttendanceRecords(del.id)]
  /\ UNCHANGED <<students, attendance, now, last, steps, req, ui, scanner, calls>>

\* Lines 102-104: one kv.del of the loop lands; lines 106: after the last
\* one the handler answers.
DeleteCascade ==
  /\ del.pc = "cascade"
  /\ IF del.records = {}
     THEN /\ del' = [del EXCEPT !.pc = "done", !.status = 200]
          /\ UNCHANGED attendance
     ELSE \E record \in del.records :
            /\ attendance' = KvDel(attendance, record.value.id)
            /\ del' = [del EXCEPT !.records = @ \ {record}]
  /\ UNCHANGED <<students, now, last, steps, req, ui, scanner, calls>>

DeleteRaceNext ==
  \/ RaceSetup
  \/ RaceTick
  \/ \E r \in Requests : CheckInReadStudents(r)
  \/ \E r \in Requests : CheckInReadAttendance(r)
  \/ \E r \in Requests : CheckInWrite(r)
  \/ DeleteGet
  \/ DeleteDel
  \/ DeleteReadAttendance
  \/ DeleteCascade

SpecDeleteRace == Init /\ [][DeleteRaceNext]_vars

\* ================================================================ the app

\* ------------------------------------------------- API client (App.tsx)

\* A fetch that is rejected: the request reaches no handler.
Rejected(op, arg) ==
  /\ last' = Response(op, 0, arg, {}, "Failed to fetch", NoMessage, {}, {})
  /\ UNCHANGED <<students, attendance, now>>

\* response.ok
Ok(response) == response.status = 200

NetworkError == <<"Network connection failed. Please check your internet connection.", Empty>>

\* The message of the Error apiRequest throws for a response that is not ok
\* (lines 283-293) or for a rejected fetch (lines 300-302); a message is a
\* text and the value it is built around.
ApiError(response) ==
  IF response.status = 0 THEN NetworkError
  ELSE IF response.status = 404 /\ response.op = "checkin"
  THEN <<"Student not found with this QR code", Empty>>
  ELSE IF response.status = 409 /\ response.op = "checkin"
  THEN IF response.message # NoMessage THEN response.message
       ELSE <<"Student already checked in today", Empty>>
  ELSE IF response.error # "" THEN <<response.error, Empty>>
  ELSE IF response.message # NoMessage THEN response.message
  ELSE <<"Server error: ", Txt(response.status)>>

\* GET /students: the valid students in the order of the table.
GetStudents(entries) == SelectSeq(Values(entries), ValidStudent)

\* student && student.id && student.name && student.email
ClientValidStudent(student) ==
  Truthy(student.id) /\ Truthy(student.name) /\ Truthy(student.email)

\* studentAPI.getAll: the list of a response, or [] when the request failed.
StudentAPIGetAll(store) ==
  { [failed |-> FALSE, list |-> SelectSeq(GetStudents(entries), ClientValidStudent)] :
      entries \in Orderings(KvGetByPrefix(store)) }
  \cup { [failed |-> TRUE, list |-> <<>>] }

\* attendanceAPI.getAll: the list of a response, or [] when the request failed.
AttendanceAPIGetAll(store) ==
  { [failed |-> FALSE, list |-> SelectSeq(GetAttendance(entries), ValidRecord)] :
      entries \in Orderings(KvGetByPrefix(store)) }
  \cup { [failed |-> TRUE, list |-> <<>>] }

\* ------------------------------------------------------ App (App.tsx)

\* A call of a handler of the app, of at most n in a behaviour.
AppCall(n) == steps < n /\ steps' = steps + 1 /\ UNCHANGED <<req, del, scanner, calls>>

\* loadData: the lists it sets from the two stores, and whether one of its
\* requests failed.
LoadData(studentStore, attendanceStore) ==
  { [students |-> SelectSeq(studentsData.list, ClientValidStudent),
     attendanceRecords |-> SelectSeq(attendanceData.list, ValidRecord),
     failed |-> studentsData.failed \/ attendanceData.failed] :
      studentsData \in StudentAPIGetAll(studentStore),
      attendanceData \in AttendanceAPIGetAll(attendanceStore) }

ConnectError == "Failed to connect to backend. Please refresh the page."

\* initApp: the health check, loadData, and the sample data when no student
\* came back.
InitAppRun ==
  \/ /\ Rejected("health", Empty)
     /\ ui' = [NewApp EXCEPT !.error = ConnectError, !.handler = "init", !.failed = TRUE]
  \/ \E first \in LoadData(students, attendance),
        currentStudents \in StudentAPIGetAll(students) :
       IF currentStudents.list = <<>>
       THEN \/ /\ Rejected("init", Empty)
               /\ ui' = [NewApp EXCEPT !.students = first.students,
                                       !.attendanceRecords = first.attendanceRecords,
                                       !.error = ConnectError,
                                       !.handler = "init", !.failed = TRUE]
            \/ /\ InitSampleDataReq
               /\ \E second \in LoadData(students', attendance') :
                    ui' = [NewApp EXCEPT
                             !.students = second.students,
                             !.attendanceRecords = second.attendanceRecords,
                             !.handler = "init",
                             !.failed = first.failed \/ currentStudents.failed
                                          \/ second.failed]
       ELSE /\ last' = Response("health", 200, Empty, {}, "", NoMessage, {}, {})
            /\ UNCHANGED <<students, attendance, now>>
            /\ ui' = [NewApp EXCEPT !.students = first.students,
                                    !.attendanceRecords = first.attendanceRecords,
                                    !.handler = "init", !.failed = first.failed]

\* initApp, as the component mounts or after the Retry button of the error
\* screen reloaded the page.
InitApp ==
  /\ steps = 0 \/ ui.error # ""
  /\ AppCall(MaxAppSteps)
  /\ InitAppRun

\* The handlers below run once the app shows its tabs.
Shown == steps > 0 /\ ui.error = ""

\* The words of a text: String.prototype.includes is case-sensitive, and the
\* phrases looked for below begin and end at word boundaries.
Words(text) ==
  CASE text = " has already checked in today" ->
         <<"has", "already", "checked", "in", "today">>
    [] text = "Student already checked in today" ->
         <<"Student", "already", "checked", "in", "today">>
    [] text = "Student not found with this QR code" ->
         <<"Student", "not", "found", "with", "this", "QR", "code">>
    [] text = "Student not found" -> <<"Student", "not", "found">>
    [] text = "Already checked in" -> <<"Already", "checked", "in">>
    [] text = "QR code is required" -> <<"QR", "code", "is", "required">>
    [] OTHER -> <<text>>

\* The words of an error message: the value it is built around, one word
\* that is none of the words above, then its text.
MessageWords(message) ==
  (IF message[2] = Empty THEN <<>> ELSE <<"<value>">>) \o Words(message[1])

\* err.message.includes(phrase)
Includes(message, phrase) ==
  LET words == MessageWords(message)
      sought == Words(phrase)
  IN \E i \in 0..(Len(words) - Len(sought)) :
       SubSeq(words, i + 1, i + Len(sought)) = sought

\* The notification of the catch block of handleQRScan (lines 85-92).
QRScanError(message, qrCode) ==
  IF Includes(message, "Already checked in")
  THEN <<"error", message>>
  ELSE IF Includes(message, "Student not found")
  THEN <<"error", <<"No student found with QR code: ", qrCode>>>>
  ELSE <<"error", <<"Failed to check in student. Please try again.", Empty>>>>

\* The codes the scanner hands to onScan: handleManualInput picks one of
\* mockStudentIds; the detection routine never finds a code.
MockStudentIds == { SampleStu(i) : i \in 1..5 }

HandleQRScan ==
  /\ Shown
  /\ AppCall(MaxAppSteps)
  /\ \E qrCode \in MockStudentIds :
       /\ CheckInReq(qrCode) \/ Rejected("checkin", qrCode)
       /\ IF Ok(last')
          THEN \E updatedRecords \in AttendanceAPIGetAll(attendance') :
                 ui' = [ui EXCEPT !.attendanceRecords = updatedRecords.list,
                                  !.toast = <<"success", last'.message>>,
                                  !.handler = "scan",
                                  !.failed = updatedRecords.failed]
          ELSE ui' = [ui EXCEPT !.toast = QRScanError(ApiError(last'), qrCode),
                                !.handler = "scan", !.failed = TRUE]

\* What the add dialog submits.
FormData == [name |-> Txt(1), email |-> Txt(1), studentNumber |-> Txt(1), country |-> Empty]

HandleAddStudent ==
  /\ Shown
  /\ AppCall(MaxAppSteps)
  /\ CreateStudentReq(FormData) \/ Rejected("create", Empty)
  /\ IF Ok(last')
     THEN \E newStudent \in last'.student :
            ui' = [ui EXCEPT !.students = Append(@, newStudent),
                             !.toast = <<"success", <<"Student added successfully!", FormData.name>>>>,
                             !.handler = "add", !.failed = FALSE]
     ELSE ui' = [ui EXCEPT !.toast = <<"error", <<"Failed to add student. Please try again.", Empty>>>>,
                           !.handler = "add", !.failed = TRUE]

\* What the edit dialog submits for a listed student: its fields, with a new
\* name.
EditedData(student) ==
  [name |-> Txt(2), email |-> student.email, studentNumber |-> student.studentNumber,
   country |-> student.country]

\* The students the table of the Students tab shows a row for.
Listed == { ui.students[i] : i \in 1..Len(ui.students) }

HandleUpdateStudent ==
  /\ Shown
  /\ AppCall(MaxAppSteps)
  /\ \E editingStudent \in Listed :
       LET id == editingStudent.id IN
       /\ UpdateStudentReq(id, EditedData(editingStudent)) \/ Rejected("update", id)
       /\ IF Ok(last')
          THEN \E updatedStudent \in last'.student :
                 ui' = [ui EXCEPT
                          !.students = [i \in 1..Len(@) |->
                                          IF @[i].id = id THEN updatedStudent ELSE @[i]],
                          !.toast = <<"success", <<"Student updated successfully!", Empty>>>>,
                          !.handler = "update", !.failed = FALSE]
          ELSE ui' = [ui EXCEPT !.toast = <<"error", <<"Failed to update student. Please try again.", Empty>>>>,
                                !.handler = "update", !.failed = TRUE]

\* handleDeleteStudent for a listed student.
DeleteStudentRun ==
  \E student \in Listed :
    LET id == student.id IN
    /\ DeleteStudentReq(id) \/ Rejected("delete", id)
    /\ IF Ok(last')
       THEN ui' = [ui EXCEPT
                     !.students = SelectSeq(@, LAMBDA s : s.id # id),
                     !.attendanceRecords = SelectSeq(@, LAMBDA record : record.studentId # id),
                     !.toast = <<"success", <<"Student removed successfully!", student.name>>>>,
                     !.handler = "delete", !.failed = FALSE]
       ELSE ui' = [ui EXCEPT !.toast = <<"error", <<"Failed to delete student. Please try again.", Empty>>>>,
                             !.handler = "delete", !.failed = TRUE]

HandleDeleteStudent ==
  /\ Shown
  /\ AppCall(MaxAppSteps)
  /\ DeleteStudentRun

\* handleRefresh: loadData, then the notification, whatever loadData met.
HandleRefresh ==
  /\ Shown
  /\ AppCall(MaxAppSteps)
  /\ \E loaded \in LoadData(students, attendance) :
       /\ last' = Response("load", IF loaded.failed THEN 0 ELSE 200, Empty, {}, "",
                           NoMessage, {}, {})
       /\ ui' = [ui EXCEPT !.students = loaded.students,
                           !.attendanceRecords = loaded.attendanceRecords,
                           !.toast = <<"success", <<"Data refreshed successfully!", Empty>>>>,
                           !.handler = "refresh", !.failed = loaded.failed]
  /\ UNCHANGED <<students, attendance, now>>

\* Time passes between two handlers of the app.
AppTick == steps > 0 /\ TimePasses /\ UNCHANGED flight

AppNext ==
  \/ InitApp
  \/ AppTick
  \/ HandleQRScan
  \/ HandleAddStudent
  \/ HandleUpdateStudent
  \/ HandleDeleteStudent
  \/ HandleRefresh

SpecApp == Init /\ [][AppNext]_vars

\* -------------------------------------- handlers of the app, interleaved

\* A student is on the server before the app is opened.
ClientSetup ==
  /\ steps = 0
  /\ steps' = 1
  /\ CreateStudentReq(FormData)
  /\ UNCHANGED flight

\* The app mounts and every request of initApp succeeds.
ClientMount ==
  /\ steps = 1
  /\ steps' = 2
  /\ InitAppRun
  /\ ~ui'.failed
  /\ UNCHANGED <<req, del, scanner, calls>>

\* A handler may start once the app shows its tabs.
Mounted == steps = 2 /\ ui.error = ""

Served == <<students, attendance, now, last>>

\* handleRefresh, lines 26-29 of loadData: GET /students of the Promise.all
\* is answered (the two requests are answered in either order).
RefreshStudents(c) ==
  /\ Mounted
  /\ calls[c].handler \in {"none", "refresh"}
  /\ calls[c].pc \in {"new", "sent"}
  /\ calls[c].studentsData = {}
  /\ \E studentsData \in StudentAPIGetAll(students) :
       calls' = [calls EXCEPT ![c].pc = "sent", ![c].handler = "refresh",
                              ![c].studentsData = {studentsData}]
  /\ UNCHANGED <<Served, steps, req, ui, del, scanner>>

\* GET /attendance of the Promise.all is answered.
RefreshAttendance(c) ==
  /\ Mounted
  /\ calls[c].handler \in {"none", "refresh"}
  /\ calls[c].pc \in {"new", "sent"}
  /\ calls[c].attendanceData = {}
  /\ \E attendanceData \in AttendanceAPIGetAll(attendance) :
       calls' = [calls EXCEPT ![c].pc = "sent", ![c].handler = "refresh",
                              ![c].attendanceData = {attendanceData}]
  /\ UNCHANGED <<Served, steps, req, ui, del, scanner>>

\* Lines 32-36 of loadData and line 142: both responses are in, the lists
\* are filtered and set, the notification is shown.
RefreshDone(c) ==
  /\ calls[c].handler = "refresh"
  /\ calls[c].pc = "sent"
  /\ \E studentsData \in calls[c].studentsData,
        attendanceData \in calls[c].attendanceData :
       /\ ui' = [ui EXCEPT
                   !.students = SelectSeq(studentsData.list, ClientValidStudent),
                   !.attendanceRecords = SelectSeq(attendanceData.list, ValidRecord),
                   !.toast = <<"success", <<"Data refreshed successfully!", Empty>>>>,
                   !.handler = "refresh",
                   !.failed = studentsData.failed \/ attendanceData.failed]
       /\ calls' = [calls EXCEPT ![c].pc = "done",
                      ![c].failed = studentsData.failed \/ attendanceData.failed]
  /\ UNCHANGED <<Served, steps, req, del, scanner>>

\* handleAddStudent, line 99: POST /students is answered.
AddSent(c) ==
  /\ Mounted
  /\ calls[c].pc = "new"
  /\ CreateStudentReq(FormData) \/ Rejected("create", Empty)
  /\ calls' = [calls EXCEPT ![c].pc = "sent", ![c].handler = "add",
                            ![c].student = last'.student, ![c].failed = ~Ok(last')]
  /\ UNCHANGED <<steps, req, ui, del, scanner>>

\* Lines 100-105: the new student is appended to the list as it is now.
AddDone(c) ==
  /\ calls[c].handler = "add"
  /\ calls[c].pc = "sent"
  /\ IF calls[c].failed
     THEN ui' = [ui EXCEPT !.toast = <<"error", <<"Failed to add student. Please try again.", Empty>>>>,
                           !.handler = "add", !.failed = TRUE]
     ELSE \E newStudent \in calls[c].student :
            ui' = [ui EXCEPT !.students = Append(@, newStudent),
                             !.toast = <<"success", <<"Student added successfully!", FormData.name>>>>,
                             !.handler = "add", !.failed = FALSE]
  /\ calls' = [calls EXCEPT ![c].pc = "done"]
  /\ UNCHANGED <<Served, steps, req, del, scanner>>

\* handleUpdateStudent, line 110: PUT /students/:id of a listed student is
\* answered.
UpdateSent(c) ==
  /\ Mounted
  /\ calls[c].pc = "new"
  /\ \E editingStudent \in Listed :
       /\ \/ UpdateStudentReq(editingStudent.id, EditedData(editingStudent))
          \/ Rejected("update", editingStudent.id)
       /\ calls' = [calls EXCEPT ![c].pc = "sent", ![c].handler = "update",
                                 ![c].id = editingStudent.id,
                                 ![c].student = last'.student,
                                 ![c].failed = ~Ok(last')]
  /\ UNCHANGED <<steps, req, ui, del, scanner>>

\* Lines 111-116: the student of that id is replaced in the list as it is
\* now.
UpdateDone(c) ==
  /\ calls[c].handler = "update"
  /\ calls[c].pc = "sent"
  /\ IF calls[c].failed
     THEN ui' = [ui EXCEPT !.toast = <<"error", <<"Failed to update student. Please try again.", Empty>>>>,
                           !.handler = "update", !.failed = TRUE]
     ELSE \E updatedStudent \in calls[c].student :
            ui' = [ui EXCEPT
                     !.students = [i \in 1..Len(@) |->
                                     IF @[i].id = calls[c].id THEN updatedStudent ELSE @[i]],
                     !.toast = <<"success", <<"Student updated successfully!", Empty>>>>,
                     !.handler = "update", !.failed = FALSE]
  /\ calls' = [calls EXCEPT ![c].pc = "done"]
  /\ UNCHANGED <<Served, steps, req, del, scanner>>

\* handleDeleteStudent, line 121: DELETE /students/:id of a listed student
\* is answered.
DeleteSent(c) ==
  /\ Mounted
  /\ calls[c].pc = "new"
  /\ \E student \in Listed :
       /\ DeleteStudentReq(student.id) \/ Rejected("delete", student.id)
       /\ calls' = [calls EXCEPT ![c].pc = "sent", ![c].handler = "delete",
                                 ![c].id = student.id, ![c].student = {student},
                                 ![c].failed = ~Ok(last')]
  /\ UNCHANGED <<steps, req, ui, del, scanner>>

\* Lines 122-129: the student and its records are taken out of the lists as
\* they are now.
DeleteDone(c) ==
  /\ calls[c].handler = "delete"
  /\ calls[c].pc = "sent"
  /\ IF calls[c].failed
     THEN ui' = [ui EXCEPT !.toast = <<"error", <<"Failed to delete student. Please try again.", Empty>>>>,
                           !.handler = "delete", !.failed = TRUE]
     ELSE \E student \in calls[c].student :
            ui' = [ui EXCEPT
                     !.students = SelectSeq(@, LAMBDA s : s.id # calls[c].id),
                     !.attendanceRecords =
                       SelectSeq(@, LAMBDA record : record.studentId # calls[c].id),
                     !.toast = <<"success", <<"Student removed successfully!", student.name>>>>,
                     !.handler = "delete", !.failed = FALSE]
  /\ calls' = [calls EXCEPT ![c].pc = "done"]
  /\ UNCHANGED <<Served, steps, req, del, scanner>>

ClientNext ==
  \/ ClientSetup
  \/ ClientMount
  \/ \E c \in Calls : RefreshStudents(c)
  \/ \E c \in Calls : RefreshAttendance(c)
  \/ \E c \in Calls : RefreshDone(c)
  \/ \E c \in Calls : AddSent(c)
  \/ \E c \in Calls : AddDone(c)
  \/ \E c \in Calls : UpdateSent(c)
  \/ \E c \in Calls : UpdateDone(c)
  \/ \E c \in Calls : DeleteSent(c)
  \/ \E c \in Calls : DeleteDone(c)

SpecClient == Init /\ [][ClientNext]_vars

\* --------------------------------------------- QRScanner (QRScanner.tsx)

\* Lines 59-73, stopScanning: the tracks of the stream the ref holds are
\* stopped, the interval the ref holds is cleared, both refs are emptied.
StopScanning(s) ==
  [s EXCEPT !.live = @ \ s.streamRef, !.streamRef = {},
            !.timers = @ \ s.scanIntervalRef, !.scanIntervalRef = {}]

\* Lines 31-33, startScanning up to its await of getUserMedia.
StartScanning(s) == [s EXCEPT !.pending = @ + 1]

\* Lines 19-29, the effect on isActive: the cleanup the effect before it
\* returned, then startScanning or stopScanning.
UseEffect(s) ==
  IF s.isActive THEN StartScanning(StopScanning(s))
  ELSE StopScanning(StopScanning(s))

\* Lines 111-124 and 137-146: the video element is in the page, so that
\* videoRef.current is set, while isActive holds and no camera request was
\* denied.
VideoShown(s) == s.isActive /\ s.hasPermission # "false"

\* toggleScanner of App.tsx (the Start/Stop Scanner and the Try Again
\* button), the render with the new isActive and its effect.
ToggleScanner ==
  /\ scanner.toggles < MaxToggles
  /\ scanner' = UseEffect([scanner EXCEPT !.isActive = ~@, !.toggles = @ + 1])
  /\ UNCHANGED <<students, attendance, now, last, steps, req, ui, del, calls>>

\* Lines 33-52: getUserMedia hands out a stream and a startScanning call
\* goes on: the ref takes the stream; with a video element in the page
\* hasPermission is set and the interval started.
CameraGranted ==
  /\ scanner.pending > 0
  /\ LET stream == scanner.opened + 1
         held == [scanner EXCEPT !.pending = @ - 1, !.opened = stream,
                                 !.live = @ \cup {stream}, !.streamRef = {stream}]
     IN scanner' = IF VideoShown(scanner)
                   THEN [held EXCEPT !.hasPermission = "true",
                                     !.scanIntervalRef = {stream},
                                     !.timers = @ \cup {stream}]
                   ELSE held
  /\ UNCHANGED <<students, attendance, now, last, steps, req, ui, del, calls>>

\* Lines 53-56: getUserMedia fails and a startScanning call goes on.
CameraDenied ==
  /\ scanner.pending > 0
  /\ scanner' = [scanner EXCEPT !.pending = @ - 1, !.hasPermission = "false"]
  /\ UNCHANGED <<students, attendance, now, last, steps, req, ui, del, calls>>

ScannerNext ==
  \/ ToggleScanner
  \/ CameraGranted
  \/ CameraDenied

SpecScanner == Init /\ [][ScannerNext]_vars

\* ------------------------- AttendanceDashboard (AttendanceDashboard.tsx)

\* Lines 13-17: the loaded records of the day the dashboard is rendered on.
TodayRecords(attendanceRecords, time) ==
  SelectSeq(attendanceRecords,
            LAMBDA record : /\ Truthy(record.timestamp)
                            /\ DateStringOf(record.timestamp) = ToDateString(time))

\* Math.round((part / whole) * 100) for whole > 0: the nearest integer, a
\* half rounded up.
RoundPercent(part, whole) == (200 * part + whole) \div (2 * whole)

\* Lines 19-21.
AttendanceRate(studentList, attendanceRecords, time) ==
  LET presentToday == Len(TodayRecords(attendanceRecords, time))
      totalStudents == Len(studentList)
  IN IF totalStudents > 0 THEN RoundPercent(presentToday, totalStudents) ELSE 0

\* Lines 28-33, formatTime: the hour and the minute of a timestamp.
FormatTime(timestamp) == <<"time", GetTime(timestamp) % DayLen>>

\* Lines 105-108, what Last Check-in shows: a time, or None (no element).
LastCheckIn(attendanceRecords) ==
  IF Len(attendanceRecords) > 0
  THEN {FormatTime(attendanceRecords[Len(attendanceRecords)].timestamp)}
  ELSE {}

\* The app is opened on a server other clients have used: their requests
\* come first.
NotOpened == ui.handler = "none"

EarlierCreate == NotOpened /\ DeepCreate
EarlierUpdate == NotOpened /\ DeepUpdate
EarlierCheckIn == NotOpened /\ DeepCheckIn

\* A handler of the app once the other clients are done, of at most one
\* more than their requests.
DashCall ==
  /\ steps > 0
  /\ steps < MaxDeepSteps + 1
  /\ steps' = steps + 1
  /\ UNCHANGED <<req, del, scanner, calls>>

\* The app is opened: initApp.
DashOpen == NotOpened /\ DashCall /\ InitAppRun

\* The Delete button of a row.
DashDelete == ~NotOpened /\ ui.error = "" /\ DashCall /\ DeleteStudentRun

DashNext ==
  \/ EarlierCreate
  \/ EarlierUpdate
  \/ EarlierCheckIn
  \/ DashOpen
  \/ DashDelete

SpecDash == Init /\ [][DashNext]_vars

\* ================================================================ claims

Stored(store) == { store[k] : k \in DOMAIN store }

\* The step is a handler call of route op.
Handled(op) == steps' = steps + 1 /\ last'.op = op

\* ---------------------------------------------------------------- C1

\* C1: after any sequence of server operations, each run to completion, the
\* store never holds two attendance records with the same studentId whose
\* timestamps fall on the same calendar day.
C1_OneRecordPerStudentPerDay ==
  \A k1, k2 \in DOMAIN attendance :
    (/\ k1 # k2
     /\ attendance[k1].studentId = attendance[k2].studentId)
    => DateStringOf(attendance[k1].timestamp) # DateStringOf(attendance[k2].timestamp)

\* ---------------------------------------------------------------- C2

\* The records of a student id on a day.
RecordsOn(store, studentId, day) ==
  { record \in Stored(store) :
      record.studentId = studentId /\ DateStringOf(record.timestamp) = day }

\* The step is a check-in call with code qrCode that begins and ends on one
\* calendar day.
CheckInCall(qrCode) ==
  /\ Handled("checkin")
  /\ last'.arg = qrCode
  /\ ToDateString(now') = ToDateString(now)

\* C2: checkIn(code) called twice in succession on one calendar day, for a
\* stored student with that qrCode and no record yet that day: the first call
\* succeeds and adds one attendance record, the second fails with 409 and
\* leaves the attendance store as the first call left it.
C2_TwiceInSuccession ==
  [][\A qrCode \in ScanCodes :
       /\ (/\ CheckInCall(qrCode)
           /\ \E student \in Stored(students) :
                /\ student.qrCode = qrCode
                /\ RecordsOn(attendance, student.id, ToDateString(now)) = {})
          => /\ last'.status = 200
             /\ Cardinality(DOMAIN attendance') = Cardinality(DOMAIN attendance) + 1
       /\ (/\ CheckInCall(qrCode)
           /\ last.op = "checkin" /\ last.status = 200 /\ last.arg = qrCode
           /\ \A record \in last.record :
                DateStringOf(record.timestamp) = ToDateString(now))
          => /\ last'.status = 409
             /\ attendance' = attendance]_vars

\* ---------------------------------------------------------------- C3

\* Two requests that both passed the already-checked-in test for one student
\* and were answered 200.
BothPassed(r1, r2) ==
  /\ r1 # r2
  /\ req[r1].pc = "done" /\ req[r1].status = 200
  /\ req[r2].pc = "done" /\ req[r2].status = 200
  /\ \E s1 \in req[r1].student, s2 \in req[r2].student : s1.id = s2.id

\* No other request built a record under the same id.
SoleId(r) ==
  \A other \in Requests \ {r} :
    req[other].record = {} \/ req[other].idTime # req[r].idTime

\* C3: when two interleaved check-in requests for one student both pass the
\* already-checked-in test and are answered, and no request shares the
\* millisecond of their record ids, the store holds the records of both: two
\* attendance records of that student.
C3_BothRecordsLand ==
  \A r1, r2 \in Requests :
    (BothPassed(r1, r2) /\ SoleId(r1) /\ SoleId(r2))
    => \A rec1 \in req[r1].record, rec2 \in req[r2].record :
         /\ rec1 # rec2
         /\ rec1 \in Stored(attendance)
         /\ rec2 \in Stored(attendance)

\* Both requests passed the test on one day and the store ends with two
\* records of that student on that day.
C3_TwoRecordsOneDay ==
  \E r1, r2 \in Requests :
    /\ BothPassed(r1, r2)
    /\ req[r1].today = req[r2].today
    /\ \E rec1 \in req[r1].record, rec2 \in req[r2].record :
         /\ rec1.id # rec2.id
         /\ {rec1, rec2} \subseteq RecordsOn(attendance, rec1.studentId, req[r1].today)

\* ---------------------------------------------------------------- C4

\* C4: after deleteStudent(id) succeeds, the store holds no attendance record
\* whose studentId equals id, and listAttendance() returns none for that id.
C4_DeleteCascades ==
  [][(Handled("delete") /\ last'.status = 200)
     => /\ \A k \in DOMAIN attendance' : attendance'[k].studentId # last'.arg
        /\ \A list \in ListAttendance' :
             \A i \in 1..Len(list) : list[i].studentId # last'.arg
        /\ \A k \in DOMAIN attendance :
             attendance[k].studentId # last'.arg
             => k \in DOMAIN attendance' /\ attendance'[k] = attendance[k]]_vars

\* A delete removed the sample record of student 1 and left that of student 2.
C4_DeletedWithRecords ==
  /\ last.op = "delete" /\ last.status = 200 /\ last.arg = SampleStu(1)
  /\ SampleAtt(1) \notin DOMAIN attendance
  /\ SampleAtt(2) \in DOMAIN attendance

\* ---------------------------------------------------------------- C5

\* No well-formed stored student has the code as qrCode.
NoStudentWithCode(qrCode) ==
  \A student \in Stored(students) :
    (Truthy(student.qrCode) /\ Truthy(student.id) /\ Truthy(student.name))
    => student.qrCode # qrCode

\* C5 as stated: checkIn(code) with a code that is the qrCode of no
\* well-formed stored student fails with 404 and leaves both stores unchanged.
C5_UnknownCodeNotFound ==
  [][(Handled("checkin") /\ NoStudentWithCode(last'.arg))
     => /\ last'.status = 404
        /\ attendance' = attendance
        /\ students' = students]_vars

\* C5 as amended: the same of a non-empty code.
C5_NonEmptyUnknownCodeNotFound ==
  [][(Handled("checkin") /\ Truthy(last'.arg) /\ NoStudentWithCode(last'.arg))
     => /\ last'.status = 404
        /\ last'.error = "Student not found"
        /\ attendance' = attendance
        /\ students' = students]_vars

\* A check-in was answered 404 although a student is stored under the code's
\* key: its name was blanked, so the search left it out.
C5_NotFoundAmongStudents ==
  /\ last.op = "checkin" /\ last.status = 404
  /\ last.arg \in DOMAIN students
  /\ students[last.arg].qrCode = last.arg

\* ---------------------------------------------------------------- C6

\* C6: the list GET /students returns never contains an entry whose id, name
\* or email is missing or empty.
C6_ListedStudentsComplete ==
  \A student \in ListStudents :
    Truthy(student.id) /\ Truthy(student.name) /\ Truthy(student.email)

\* ---------------------------------------------------------------- C7

\* C7: the record stored under key student:<k> has id field equal to k.
C7_IdMatchesKey ==
  \A k \in DOMAIN students : students[k].id = k

\* ---------------------------------------------------------------- C8

\* C8: no two stored students have the same qrCode.
C8_QrCodeUnique ==
  \A k1, k2 \in DOMAIN students :
    k1 # k2 => students[k1].qrCode # students[k2].qrCode

\* ---------------------------------------------------------------- C9

\* C9: a successful checkIn(code) stores one new attendance record whose
\* studentId is the id of a stored student whose qrCode equals code, whose
\* status is present and whose timestamp is the current time, and returns
\* that student and that record.
C9_CheckInStoresRecord ==
  [][(Handled("checkin") /\ last'.status = 200)
     => /\ Cardinality(last'.student) = 1
        /\ Cardinality(last'.record) = 1
        /\ \A student \in last'.student, record \in last'.record :
             /\ student \in Stored(students)
             /\ student.qrCode = last'.arg
             /\ record.studentId = student.id
             /\ record.status = Present
             /\ record.timestamp = ToISOString(now')
             /\ record \notin Stored(attendance)
             /\ record.id \in DOMAIN attendance'
             /\ attendance'[record.id] = record
             /\ \A k \in DOMAIN attendance' \ {record.id} :
                  k \in DOMAIN attendance /\ attendance'[k] = attendance[k]
        /\ students' = students]_vars

\* A check-in succeeded for a student whose id is not the code scanned.
C9_CheckedInUnderOtherId ==
  /\ last.op = "checkin" /\ last.status = 200
  /\ \E student \in last.student, record \in last.record :
       /\ student.id # last.arg
       /\ record.studentId = student.id
       /\ record \in Stored(attendance)

\* --------------------------------------------------------------- C10

\* C10: a stored attendance record never changes, and leaves the store only
\* through deleteStudent of the student it references.
C10_RecordsKept ==
  [][\A k \in DOMAIN attendance :
       \/ k \in DOMAIN attendance' /\ attendance'[k] = attendance[k]
       \/ /\ Handled("delete") /\ last'.status = 200
          /\ last'.arg = attendance[k].studentId
          /\ k \notin DOMAIN attendance']_vars

\* --------------------------------------------------------------- C11

\* The calendar day of a clock value and of a timestamp, as a number.
DayOf(t) == t \div DayLen

\* C11: if every attendance record of a stored student has a timestamp on an
\* earlier calendar day than now, checkIn with that student's qrCode succeeds
\* and adds a record of that student for the current day.
C11_ResetsAtDayBoundary ==
  [][\A student \in Stored(students) :
       (/\ Handled("checkin")
        /\ last'.arg = student.qrCode
        /\ \A record \in Stored(attendance) :
             record.studentId = student.id
             => DayOf(GetTime(record.timestamp)) < DayOf(now))
       => /\ last'.status = 200
          /\ \E record \in last'.record :
               /\ record \in Stored(attendance')
               /\ record \notin Stored(attendance)
               /\ record.studentId = student.id
               /\ DayOf(GetTime(record.timestamp)) = DayOf(now')]_vars

\* --------------------------------------------------------------- C12

\* C12: updateStudent(id, ...) and deleteStudent(id) for an id with no
\* stored student both fail with 404 (Student not found) and leave every
\* student and every attendance record in the store unchanged.
C12_UnknownIdNotFound ==
  [][((Handled("update") \/ Handled("delete")) /\ last'.arg \notin DOMAIN students)
     => /\ last'.status = 404
        /\ last'.error = "Student not found"
        /\ students' = students
        /\ attendance' = attendance]_vars

\* An update or a delete of an unknown id was answered 404 while students
\* and attendance records were stored.
C12_NotFoundWithData ==
  /\ last.op \in {"update", "delete"} /\ last.status = 404
  /\ last.arg \notin DOMAIN students
  /\ DOMAIN students # {} /\ DOMAIN attendance # {}

\* --------------------------------------------------------------- C13

\* C13: a request with a missing required input (POST /students without
\* name, email or studentNumber, POST /attendance/checkin without qrCode; a
\* field is missing when it is absent or empty) is answered 400 and leaves
\* the store and the clock as they were.
C13_MissingInputRejected ==
  [][/\ Handled("create")
          => /\ last'.body # {}
             /\ \A body \in last'.body :
                  (\E f \in {"name", "email", "studentNumber"} :
                     body[f] \in {Undefined, Empty})
                  => last'.status = 400
     /\ (Handled("checkin") /\ last'.arg \in {Undefined, Empty})
          => last'.status = 400
     /\ ((Handled("create") \/ Handled("checkin")) /\ last'.status = 400)
          => /\ students' = students
             /\ attendance' = attendance
             /\ now' = now]_vars

\* A create was answered 400 while students were stored.
C13_RejectedWithData ==
  /\ last.op = "create" /\ last.status = 400
  /\ DOMAIN students # {}

\* --------------------------------------------------------------- C14

\* C14: a successful updateStudent(id, partial) replaces exactly the fields
\* present in partial with their new values, keeps every other field of that
\* student as it was, and leaves all other students and all attendance
\* records unchanged.
C14_UpdateMerges ==
  [][(Handled("update") /\ last'.status = 200)
     => \A body \in last'.body :
          LET id == last'.arg IN
          /\ id \in DOMAIN students
          /\ DOMAIN students' = DOMAIN students
          /\ DOMAIN students'[id] = DOMAIN students[id] \cup DOMAIN body
          /\ \A f \in DOMAIN body : students'[id][f] = body[f]
          /\ \A f \in DOMAIN students[id] \ DOMAIN body : students'[id][f] = students[id][f]
          /\ \A k \in DOMAIN students \ {id} : students'[k] = students[k]
          /\ attendance' = attendance
          /\ last'.student = {students'[id]}]_vars

\* An update changed the name and the country of one of two stored students
\* who had other values, while attendance records were stored.
C14_UpdatedTwoFields ==
  /\ last.op = "update" /\ last.status = 200
  /\ last.body = {[name |-> Txt(2), country |-> Txt(2)]}
  /\ last.arg \in DOMAIN students
  /\ students[last.arg].name = Txt(2)
  /\ students[last.arg].email # Txt(2)
  /\ Cardinality(DOMAIN students) > 1
  /\ DOMAIN attendance # {}

\* --------------------------------------------------------------- C15

\* The records of a list whose timestamp falls on the day of `time`, in the
\* order of the list.
OfDay(list, time) ==
  SelectSeq(list, LAMBDA record : DayOf(GetTime(record.timestamp)) = DayOf(time))

\* C15: listAttendanceToday() returns exactly the records of
\* listAttendance(), evaluated on the same store (the table returning its
\* entries in the same order) and at the same instant, whose timestamp's
\* calendar day equals the current calendar day, in the same relative order.
C15_TodayIsSublist ==
  \A entries \in Orderings(KvGetByPrefix(attendance)) :
    GetAttendanceToday(entries, now) = OfDay(GetAttendance(entries), now)

\* The store holds a record of today, two of one timestamp among them, and
\* a record of the day before.
C15_RecordsOfTwoDays ==
  /\ \E r1, r2 \in Stored(attendance) :
       /\ r1 # r2
       /\ r1.timestamp = r2.timestamp
       /\ DayOf(GetTime(r1.timestamp)) = DayOf(now)
  /\ \E r \in Stored(attendance) : DayOf(GetTime(r.timestamp)) < DayOf(now)

\* --------------------------------------------------------------- C16

\* C16: listAttendance() returns every stored attendance record that has
\* id, studentId and timestamp, each once, and no other entry, ordered so that
\* each record's timestamp is not earlier than that of the record after it.
C16_ListedSortedComplete ==
  \A entries \in Orderings(KvGetByPrefix(attendance)) :
    LET list == GetAttendance(entries) IN
    /\ { list[i] : i \in 1..Len(list) }
         = { record \in Stored(attendance) :
               /\ record.id \notin {Undefined, Empty}
               /\ record.studentId \notin {Undefined, Empty}
               /\ record.timestamp \notin {Undefined, Empty} }
    /\ Len(list) = Cardinality({ list[i] : i \in 1..Len(list) })
    /\ \A i \in 1..(Len(list) - 1) :
         GetTime(list[i].timestamp) >= GetTime(list[i + 1].timestamp)

\* The store holds records of three different timestamps.
C16_ThreeTimestamps ==
  \E r1, r2, r3 \in Stored(attendance) :
    /\ GetTime(r1.timestamp) < GetTime(r2.timestamp)
    /\ GetTime(r2.timestamp) < GetTime(r3.timestamp)

\* --------------------------------------------------------------- C17

\* C17: createStudent(fields) with name, email and studentNumber present
\* stores, under key student:<id>, and returns a record whose qrCode equals
\* its id, whose createdAt is the time of the call and whose name, email,
\* studentNumber and country are the supplied values (the empty string for a
\* country that was not supplied).
C17_CreateStoresStudent ==
  [][Handled("create")
     => /\ Cardinality(last'.body) = 1
        /\ \A body \in last'.body :
             (\A f \in {"name", "email", "studentNumber"} : body[f] \notin {Undefined, Empty})
             => /\ last'.status = 200
                /\ Cardinality(last'.student) = 1
                /\ \A student \in last'.student :
                     /\ DOMAIN student = StudentFields
                     /\ student.id \in DOMAIN students'
                     /\ students'[student.id] = student
                     /\ student.id \in { StuId(t) : t \in now..now' }
                     /\ student.qrCode = student.id
                     /\ student.createdAt \in { ToISOString(t) : t \in now..now' }
                     /\ student.name = body.name
                     /\ student.email = body.email
                     /\ student.studentNumber = body.studentNumber
                     /\ student.country =
                          IF body.country = Undefined THEN Empty ELSE body.country
                /\ attendance' = attendance]_vars

\* A create without country was answered with the student it stored, next to
\* a student stored before.
C17_CreatedWithoutCountry ==
  /\ last.op = "create" /\ last.status = 200
  /\ \E body \in last.body : body.country = Undefined
  /\ \E student \in last.student :
       /\ student \in Stored(students)
       /\ student.country = Empty
  /\ Cardinality(DOMAIN students) > 1

\* --------------------------------------------------------------- C20

\* C20: with server operations run one at a time, every stored attendance
\* record's studentId is the id of a currently stored student (the id in its
\* key or the id in its record) in every reachable state.
C20_RecordsReferenceStudents ==
  \A record \in Stored(attendance) :
    \/ record.studentId \in DOMAIN students
    \/ \E student \in Stored(students) : student.id = record.studentId

\* --------------------------------------------------------------- C18

\* C18: when a check-in is rejected as AlreadyCheckedIn (409), the
\* notification the app shows is the server's message that names the student
\* ("<name> has already checked in today"), not the not-found message and
\* not the generic failure message.
C18_ShowsServerMessage ==
  (ui.handler = "scan" /\ last.op = "checkin" /\ last.status = 409)
  => /\ \E student \in last.student : last.message = AlreadyCheckedIn(student.name)
     /\ ui.toast = <<"error", last.message>>

\* --------------------------------------------------------------- C19

\* C19: when a backend request issued by a handler of the app (check-in, add,
\* update, delete, load or refresh) fails, the app's students list and
\* attendanceRecords list are the same after the handler finishes as before
\* it started.
C19_FailureKeepsLists ==
  [][(/\ steps' = steps + 1
      /\ ui'.handler \in {"scan", "add", "update", "delete", "refresh"}
      /\ ui'.failed)
     => /\ ui'.students = ui.students
        /\ ui'.attendanceRecords = ui.attendanceRecords]_vars

\* --------------------------------------------------------------- C21

\* C21: any two successful createStudent calls return different ids, and
\* after the second call both students are stored: a create never overwrites
\* or removes a student that was already stored.
C21_CreateKeepsStudents ==
  [][(Handled("create") /\ last'.status = 200)
     => /\ \A student \in last'.student : student.id \notin DOMAIN students
        /\ \A k \in DOMAIN students :
             k \in DOMAIN students' /\ students'[k] = students[k]]_vars

\* --------------------------------------------------------------- C22

\* C22: when a deleteStudent(id) request interleaves with a check-in request
\* for the same student, after both requests complete the store holds no
\* attendance record whose studentId is the deleted id.
C22_NoRecordOfDeleted ==
  (/\ del.pc = "done" /\ del.status = 200
   /\ \A r \in Requests : req[r].pc \in {"new", "done"}
   /\ \E r \in Requests :
        /\ req[r].pc = "done"
        /\ \E student \in req[r].student : student.id = del.id)
  => \A record \in Stored(attendance) : record.studentId # del.id

\* --------------------------------------------------------------- C23

\* The keys of the attendance records check-ins wrote.
UserRecords(store) == { k \in DOMAIN store : k \notin { SampleAtt(i) : i \in 1..3 } }

\* C23: init-sample-data changes nothing when at least one entry exists
\* under the student: prefix, so calling it twice in a row leaves the store
\* as one call does, and it never overwrites or removes a student or an
\* attendance record created by a user.
C23_InitKeepsUserData ==
  [][Handled("init")
     => /\ last'.status = 200
        /\ DOMAIN students # {}
             => /\ students' = students
                /\ attendance' = attendance
                /\ last'.message = <<"Sample data already exists", Empty>>
        /\ last.op = "init"
             => /\ students' = students
                /\ attendance' = attendance
        /\ \A k \in DOMAIN students :
             k \in DOMAIN students' /\ students'[k] = students[k]
        /\ \A k \in UserRecords(attendance) :
             k \in DOMAIN attendance' /\ attendance'[k] = attendance[k]]_vars

\* init-sample-data filled a store that held no student but a record that a
\* check-in wrote, and the record is still there.
C23_InitBesideUserRecord ==
  /\ last.op = "init"
  /\ last.message = <<"Sample data initialized successfully", Empty>>
  /\ UserRecords(attendance) # {}
  /\ SampleAtt(1) \in DOMAIN attendance

\* --------------------------------------------------------------- C24

\* C24: whenever isActive is false and no startScanning call awaits the
\* camera, the component holds no stream and no interval: both refs are
\* empty.
C24_InactiveHoldsNothing ==
  (~scanner.isActive /\ scanner.pending = 0)
    => scanner.streamRef = {} /\ scanner.scanIntervalRef = {}

\* --------------------------------------------------------------- C25

\* The handlers of the app that were started have finished, and none met a
\* failed request.
AllFinished ==
  /\ Mounted
  /\ \A c \in Calls : calls[c].pc \in {"new", "done"} /\ ~calls[c].failed
  /\ \E c \in Calls : calls[c].pc = "done"

\* C25: once every handler the client started has finished without a failed
\* request, the students list of the app is the list of the well-formed
\* students of the server, in an order GET /students can answer.
C25_ListMatchesServer ==
  AllFinished
    => \E studentsData \in StudentAPIGetAll(students) :
         ~studentsData.failed /\ ui.students = studentsData.list

\* --------------------------------------------------------------- C26

\* C26: the attendance rate the dashboard shows for the lists of the app is
\* an integer from 0 to 100, and 0 when the students list is empty.
C26_RateIsPercent ==
  LET rate == AttendanceRate(ui.students, ui.attendanceRecords, now) IN
  /\ rate \in 0..100
  /\ ui.students = <<>> => rate = 0

\* --------------------------------------------------------------- C27

\* The latest of the timestamps of the loaded records.
LatestTimestamp(attendanceRecords) ==
  CHOOSE timestamp \in { attendanceRecords[i].timestamp : i \in DOMAIN attendanceRecords } :
    \A i \in DOMAIN attendanceRecords :
      GetTime(attendanceRecords[i].timestamp) <= GetTime(timestamp)

\* C27: with records loaded, Last Check-in shows the time of the record
\* whose timestamp is the latest among them.
C27_ShowsLatestCheckIn ==
  ui.attendanceRecords # <<>>
    => LastCheckIn(ui.attendanceRecords)
         = {FormatTime(LatestTimestamp(ui.attendanceRecords))}

====
